---- MODULE Spec2Model ----
(***************************************************************************)
(* Model of collector.py: the throttled HTTP fetcher (_get), the backward  *)
(* cursor pagination (paginate_fetch) and the collection driver            *)
(* (collect_symbol / main).                                                *)
(*                                                                         *)
(* Five state machines share this module:                                  *)
(*   Spec          one paginate_fetch call against an arbitrary upstream   *)
(*   SpecUpstream  one paginate_fetch call against a well-behaved upstream *)
(*   SpecGet       one _get call, one step per HTTP response               *)
(*   SpecDriver    one run of main, one step per dataset task              *)
(*   SpecRerun     one dataset collected by two runs of main               *)
(***************************************************************************)
EXTENDS Integers, Sequences, FiniteSets, TLC

VARIABLES
    \* ---- paginate_fetch ----
    symbol_param,   \* keyword argument symbol_param of the caller: None when
                    \* the call does not pass it, Some(key) when it does
    limit,          \* keyword argument limit
    earliest_ms,    \* keyword argument earliest_ms
    end_time,       \* local end_time: None or Some(t)
    all_rows,       \* local all_rows
    params,         \* params of the request handed to _get (line 160-164)
    responses,      \* every value _get returned so far, in order
    requests,       \* endTime of every request issued so far, in order
    ordered,        \* the list paginate_fetch returned
    pc,             \* "fetching" | "returned" | "raised" | "off"
    build,          \* keyword argument build_params (which adapter built it)
    upstream,       \* rows held by a well-behaved upstream (SpecUpstream)
    \* ---- _get ----
    attempts,       \* local attempts: requests issued so far
    backoff,        \* local backoff, seconds
    resplog,        \* what came back for each request so far, in order
    sleeps,         \* base delay handed to jitter_delay for each sleep, in order
    slept,          \* seconds of the last time.sleep (base delay + jitter)
    gpc,            \* "waiting" | "returned" | "raised" | "off"
    gresult,        \* the value returned or the error raised
    \* ---- collect_symbol / main ----
    symbol_idx,     \* position of main's loop in SYMBOLS
    task_idx,       \* position of collect_symbol's loop in tasks
    stats,          \* FetchStats: success, skipped
    nfiles,         \* files on disk (every task has a file name of its own)
    last,           \* the task that ran last: path, outcome, frame written
    dpc,            \* "running" | "done" | "off"
    exit_code,      \* what main returned: None or Some(code)
    \* ---- one dataset collected by two runs ----
    run_loader,     \* the loader of the dataset
    run_upstream,   \* the rows the upstream holds, the same for both runs
    runs,           \* per run so far: its clock, its earliest_ms, its frame
    disk            \* the dataset's file: None or Some(header and data rows)

pvars == <<symbol_param, limit, earliest_ms, end_time, all_rows, params, responses, requests,
           ordered, pc, build, upstream>>

gvars == <<attempts, backoff, resplog, sleeps, slept, gpc, gresult>>

dvars == <<symbol_idx, task_idx, stats, nfiles, last, dpc, exit_code>>

rvars == <<run_loader, run_upstream, runs, disk>>

vars == <<pvars, gvars, dvars, rvars>>

----------------------------------------------------------------------------
(* Bounds of the model *)

\* largest timestamp a row carries
MaxTs == 2

\* responses delivered to one paginate_fetch call by an arbitrary upstream
MaxPages == 2

\* requests one _get call may issue when responses end neither in a
\* return, a raise nor a sleep
MaxAttempts == 7
DAYS == 1

\* page sizes of the adapters, scaled down from 1500 and 500
MAX_KLINE_LIMIT == 2
MAX_STAT_LIMIT == 1

Timestamps == 0..MaxTs
Vals == {"a", "b"}
Limits == {MAX_STAT_LIMIT, MAX_KLINE_LIMIT}
PageLens == {1, 2}
SYMBOL == "BTCUSDT"

----------------------------------------------------------------------------
(* Values *)

None == <<>>
Some(x) == <<x>>

\* a raw row: <<timestamp, value>>
Rows == Timestamps \X Vals

\* extract_timestamp = lambda row: int(row[0])
extract_timestamp(row) == row[1]

ListPayload(rows) == [kind |-> "list", rows |-> rows, keys |-> {}, truthy |-> rows # <<>>]
NullPayload == [kind |-> "null", rows |-> <<>>, keys |-> {}, truthy |-> FALSE]
DictPayload(keys) == [kind |-> "dict", rows |-> <<>>, keys |-> keys, truthy |-> keys # {}]
ScalarPayload(t) == [kind |-> "scalar", rows |-> <<>>, keys |-> {}, truthy |-> t]

Pages == UNION {[1..n -> Rows] : n \in PageLens}

\* every JSON value _get can hand back (None for HTTP 400 or a JSON null)
Payloads ==
    {ListPayload(p) : p \in Pages \cup {<<>>}}
      \cup {NullPayload}
      \cup {DictPayload(k) : k \in {{}, {"code", "msg"}, {"msg"}}}
      \cup {ScalarPayload(t) : t \in BOOLEAN}

----------------------------------------------------------------------------
(* _get: one step per response to a request *)

MAX_RETRIES == 5

\* random.uniform(0, 1): the two ends of the interval
Jitters == {0, 1}

\* line 67
jitter_delay(base_delay, jitter) == base_delay + jitter

\* status codes the server may answer with
Statuses == {200, 204, 304, 400, 404, 418, 429, 500}

\* values of the Retry-After header: absent, seconds, an HTTP date
RetryAfters == {None, Some("3"), Some("Wed, 21 Oct 2026 07:28:00 GMT")}

\* float(retry_after) succeeds on a number
IsNumber(text) == text \in {"3"}

\* float(retry_after)
float(text) == CASE text = "3" -> 3

\* bodies of a 200 response that parse as JSON
Bodies == {NullPayload, ListPayload(<<>>), ListPayload(<<<<1, "a">>>>),
           DictPayload({"code", "msg"}), ScalarPayload(FALSE)}

NetworkFailure == [kind |-> "network", status |-> 0, retry_after |-> None]
HttpResponse(status, ra) == [kind |-> "http", status |-> status, retry_after |-> ra]

Returned(value) == [kind |-> "value", value |-> value, error |-> "none"]
Raised(error) == [kind |-> "error", value |-> NullPayload, error |-> error]
NoResult == [kind |-> "none", value |-> NullPayload, error |-> "none"]

\* the network backoff with the cap of the rate-limit branch
NetworkBackoff_Capped(b) == IF b * 2 < 60 THEN b * 2 ELSE 60

\* line 92
NetworkBackoff(b) == b * 2

\* line 112
RateLimitBackoff(b) == IF b * 2 < 60 THEN b * 2 ELSE 60

\* the header ignored
Delay_IgnoreHeader(ra, b) == b

\* line 102-103
Delay(ra, b) == IF ra # None THEN float(ra[1]) ELSE b

\* the ceiling tested one attempt late
Exhausted_OneMore(n) == n > MAX_RETRIES + 1

\* line 87, line 99
Exhausted(n) == n > MAX_RETRIES

\* line 95
IsOk(status) == status = 200

\* line 98
IsRateLimited(status) == status \in {429, 418}

\* 400 left to raise_for_status
IsBadRequest_Never(status) == FALSE

\* line 115
IsBadRequest(status) == status = 400

\* line 121: Response.raise_for_status raises for 4xx and 5xx only
RaisesForStatus(status) == 400 <= status /\ status < 600

\* the loop goes round: attempts += 1 and SESSION.get once more (line 83-85)
Retry(resp, slept_base, j, newBackoff) ==
    /\ attempts' = attempts + 1
    /\ backoff' = newBackoff
    /\ resplog' = Append(resplog, resp)
    /\ sleeps' = Append(sleeps, slept_base)
    /\ slept' = jitter_delay(slept_base, j)
    /\ UNCHANGED <<gpc, gresult>>

\* the call ends, by return or by raise
Finish(resp, result) ==
    /\ gpc' = IF result.kind = "value" THEN "returned" ELSE "raised"
    /\ gresult' = result
    /\ resplog' = Append(resplog, resp)
    /\ UNCHANGED <<attempts, backoff, sleeps, slept>>

\* line 86-93: SESSION.get raises requests.RequestException
NetworkError ==
    /\ gpc = "waiting"
    /\ IF Exhausted(attempts)
       THEN Finish(NetworkFailure, Raised("RequestException"))
       ELSE \E j \in Jitters :
              Retry(NetworkFailure, backoff, j, NetworkBackoff(backoff))
    /\ UNCHANGED <<pvars, dvars, rvars>>

\* line 95-96
Ok200 ==
    /\ gpc = "waiting"
    /\ \E status \in Statuses :
        /\ IsOk(status)
        /\ \/ \E body \in Bodies :
                 Finish(HttpResponse(status, None), Returned(body))
           \/ \* the body is no JSON: response.json() raises
              Finish(HttpResponse(status, None), Raised("JSONDecodeError"))
    /\ UNCHANGED <<pvars, dvars, rvars>>

\* line 98-113
RateLimited ==
    /\ gpc = "waiting"
    /\ \E status \in Statuses, ra \in RetryAfters :
        /\ ~IsOk(status)
        /\ IsRateLimited(status)
        /\ IF Exhausted(attempts)
           THEN Finish(HttpResponse(status, ra), Raised("RuntimeError"))
           ELSE IF ra # None /\ ~IsNumber(ra[1])
           THEN Finish(HttpResponse(status, ra), Raised("ValueError"))
           ELSE \E j \in Jitters :
                  Retry(HttpResponse(status, ra), Delay(ra, backoff), j,
                        RateLimitBackoff(backoff))
    /\ UNCHANGED <<pvars, dvars, rvars>>

\* line 115-119
BadRequest ==
    /\ gpc = "waiting"
    /\ \E status \in Statuses :
        /\ ~IsOk(status)
        /\ ~IsRateLimited(status)
        /\ IsBadRequest(status)
        /\ Finish(HttpResponse(status, None), Returned(NullPayload))
    /\ UNCHANGED <<pvars, dvars, rvars>>

\* line 121, a status raise_for_status raises for
FatalStatus ==
    /\ gpc = "waiting"
    /\ \E status \in Statuses :
        /\ ~IsOk(status)
        /\ ~IsRateLimited(status)
        /\ ~IsBadRequest(status)
        /\ RaisesForStatus(status)
        /\ Finish(HttpResponse(status, None), Raised("HTTPError"))
    /\ UNCHANGED <<pvars, dvars, rvars>>

\* line 121 then line 82-85: raise_for_status returns, the loop issues the
\* request again at once
SilentStatus ==
    /\ gpc = "waiting"
    /\ attempts < MaxAttempts
    /\ \E status \in Statuses :
        /\ ~IsOk(status)
        /\ ~IsRateLimited(status)
        /\ ~IsBadRequest(status)
        /\ ~RaisesForStatus(status)
        /\ attempts' = attempts + 1
        /\ resplog' = Append(resplog, HttpResponse(status, None))
        /\ UNCHANGED <<backoff, sleeps, slept, gpc, gresult>>
    /\ UNCHANGED <<pvars, dvars, rvars>>

NoTask ==
    [path |-> <<>>, outcome |-> "none", frame |-> <<>>, calls |-> 0,
     get_raised |-> FALSE, all_rows |-> <<>>]

\* no dataset is collected twice
RerunOff ==
    /\ run_loader = "none"
    /\ run_upstream = {}
    /\ runs = <<>>
    /\ disk = <<>>

\* no run of main is modelled
DriverOff ==
    /\ symbol_idx = 0
    /\ task_idx = 0
    /\ stats = [success |-> 0, skipped |-> 0]
    /\ nfiles = 0
    /\ last = NoTask
    /\ dpc = "off"
    /\ exit_code = None

\* no paginate_fetch call is modelled step by step
PaginateOff ==
    /\ symbol_param = None
    /\ limit = 1
    /\ earliest_ms = 0
    /\ end_time = None
    /\ all_rows = <<>>
    /\ build = "interval"
    /\ params = <<>>
    /\ responses = <<>>
    /\ requests = <<>>
    /\ ordered = <<>>
    /\ pc = "off"
    /\ upstream = {}

\* no _get call is modelled step by step
GetOff ==
    /\ attempts = 0
    /\ backoff = 5
    /\ resplog = <<>>
    /\ sleeps = <<>>
    /\ slept = 0
    /\ gpc = "off"
    /\ gresult = NoResult

\* line 79-85: the first request is out
InitGet ==
    /\ attempts = 1
    /\ backoff = 5
    /\ resplog = <<>>
    /\ sleeps = <<>>
    /\ slept = 0
    /\ gpc = "waiting"
    /\ gresult = NoResult
    /\ PaginateOff
    /\ DriverOff
    /\ RerunOff

NextGet ==
    \/ NetworkError
    \/ Ok200
    \/ RateLimited
    \/ BadRequest
    \/ FatalStatus
    \/ SilentStatus

SpecGet == InitGet /\ [][NextGet]_vars

----------------------------------------------------------------------------
(* Properties of _get *)

\* every response so far satisfies P
AllResponses(P(_)) == \A i \in DOMAIN resplog : P(resplog[i])

Is429RetryAfter3(resp) ==
    resp.kind = "http" /\ resp.status = 429 /\ resp.retry_after = Some("3")

IsNetworkFailure(resp) == resp.kind = "network"

\* a status that is not 2xx and not 429, 418 or 400
IsOtherNon2xx(resp) ==
    /\ resp.kind = "http"
    /\ ~(200 <= resp.status /\ resp.status < 300)
    /\ resp.status \notin {429, 418, 400}

RECURSIVE Pow2(_)
Pow2(n) == IF n = 0 THEN 1 ELSE 2 * Pow2(n - 1)

\* C6: when every response is 429 with Retry-After: 3, each retry is
\* preceded by one sleep of base delay 3 s (at least 3 s with jitter), and
\* the request after the MAX_RETRIES-th retry ends the call with the
\* rate-limit error.
C6_RetryAfterHonoured ==
    AllResponses(Is429RetryAfter3) =>
        /\ \A i \in DOMAIN sleeps : sleeps[i] = 3
        /\ sleeps # <<>> => slept >= 3
        /\ attempts <= MAX_RETRIES + 1
        /\ gpc = "waiting" => (attempts = Len(resplog) + 1 /\ Len(sleeps) = Len(resplog))
        /\ Len(resplog) = MAX_RETRIES + 1 =>
              (gpc = "raised" /\ gresult = Raised("RuntimeError") /\ Len(sleeps) = MAX_RETRIES)
        /\ gpc # "returned"
        /\ gpc = "raised" => Len(resplog) = MAX_RETRIES + 1

\* six 429 responses with Retry-After: 3 ended the call
C6_Witness ==
    /\ AllResponses(Is429RetryAfter3)
    /\ gpc = "raised"
    /\ Len(sleeps) = MAX_RETRIES

\* C7: a 400 response ends the call at once with the value None: no further
\* request, no sleep and no error, however many retries came before.
C7_BadRequestReturnsNull ==
    [][(Len(resplog') > Len(resplog)
          /\ resplog'[Len(resplog')].kind = "http"
          /\ resplog'[Len(resplog')].status = 400) =>
            /\ gpc' = "returned"
            /\ gresult' = Returned(NullPayload)
            /\ attempts' = attempts
            /\ sleeps' = sleeps
            /\ slept' = slept]_vars

\* a 400 arrived after three retries
C7_Witness ==
    /\ gpc = "returned"
    /\ Len(resplog) = 4
    /\ resplog[4].status = 400
    /\ Len(sleeps) = 3

\* C8 as claimed: a response whose status is not 2xx and not 429, 418 or
\* 400 is the last one of the call, which ends by raising.
C8_OtherStatusRaises ==
    \A i \in DOMAIN resplog :
        IsOtherNon2xx(resplog[i]) =>
            /\ i = Len(resplog)
            /\ attempts = i
            /\ gpc = "raised"

\* C9: when every request fails at network level, the i-th retry follows a
\* sleep of base delay 5 * 2^(i-1) s, and the failure of the request after
\* the MAX_RETRIES-th retry is re-raised.
C9_NetworkBackoff ==
    AllResponses(IsNetworkFailure) =>
        /\ \A i \in DOMAIN sleeps : sleeps[i] = 5 * Pow2(i - 1)
        /\ sleeps # <<>> => slept >= sleeps[Len(sleeps)]
        /\ backoff = 5 * Pow2(Len(sleeps))
        /\ attempts <= MAX_RETRIES + 1
        /\ gpc = "waiting" => (attempts = Len(resplog) + 1 /\ Len(sleeps) = Len(resplog))
        /\ Len(resplog) = MAX_RETRIES + 1 =>
              (gpc = "raised" /\ gresult = Raised("RequestException") /\ Len(sleeps) = MAX_RETRIES)
        /\ gpc # "returned"
        /\ gpc = "raised" => Len(resplog) = MAX_RETRIES + 1

\* six network failures ended the call, the last sleep based on 80 s
C9_Witness ==
    /\ AllResponses(IsNetworkFailure)
    /\ gpc = "raised"
    /\ sleeps = <<5, 10, 20, 40, 80>>

\* a network failure, or a 429 or 418 response
IsRetryable(resp) ==
    resp.kind = "network" \/ (resp.kind = "http" /\ resp.status \in {429, 418})

\* a 429 or 418 response without a Retry-After header
IsRateLimitNoHeader(resp) ==
    resp.kind = "http" /\ resp.status \in {429, 418} /\ resp.retry_after = None

\* C15 as claimed: in a call whose requests met only network failures and
\* 429/418 responses, in any order, the base delay slept after a 429/418
\* without Retry-After is never above 60 s.
C15_RateLimitDelayCapped ==
    AllResponses(IsRetryable) =>
        \A i \in DOMAIN sleeps :
            IsRateLimitNoHeader(resplog[i]) => sleeps[i] <= 60

\* C16: in a call whose requests met only network failures and 429/418
\* responses, in any order, there are at most MAX_RETRIES + 1 requests and
\* at most MAX_RETRIES sleeps, and the call has raised once the
\* (MAX_RETRIES + 1)-th request has met its response.
C16_SharedCeiling ==
    AllResponses(IsRetryable) =>
        /\ attempts <= MAX_RETRIES + 1
        /\ Len(resplog) <= MAX_RETRIES + 1
        /\ Len(sleeps) <= MAX_RETRIES
        /\ gpc = "waiting" => (attempts = Len(resplog) + 1 /\ Len(sleeps) = Len(resplog))
        /\ gpc = "raised" => (attempts = Len(resplog) /\ Len(sleeps) = Len(resplog) - 1)
        /\ Len(resplog) = MAX_RETRIES + 1 => gpc = "raised"
        /\ gpc # "returned"

\* network failures and rate limits took turns until the sixth request ended
\* the call
C16_Witness ==
    /\ AllResponses(IsRetryable)
    /\ gpc = "raised"
    /\ Len(resplog) = MAX_RETRIES + 1
    /\ Len(sleeps) = MAX_RETRIES
    /\ \A i \in 1..MAX_RETRIES :
          IsNetworkFailure(resplog[i]) # IsNetworkFailure(resplog[i + 1])

----------------------------------------------------------------------------
(* paginate_fetch *)

\* the build_params callbacks of the adapters: fetch_klines and
\* fetch_index_like add interval, fetch_stat_series adds period,
\* fetch_funding adds startTime = earliest_ms
Builders == {"interval", "period", "startTime"}

build_params(b, earliest) ==
    CASE b = "interval" -> [interval |-> "15m"]
      [] b = "period" -> [period |-> "1h"]
      [] b = "startTime" -> [startTime |-> earliest]

\* params = {"symbol": symbol, "limit": limit}; endTime added when end_time
\* is set; then build_params(params)
BuildParams(lim, et, b, earliest) ==
    build_params(b, earliest)
      @@ (IF et = None THEN <<>> ELSE [endTime |-> et[1]])
      @@ [symbol |-> SYMBOL, limit |-> lim]

\* the endTime a request carries, None when it carries none
EndTimeOf(ps) == IF "endTime" \in DOMAIN ps THEN Some(ps.endTime) ELSE None

\* line 165-171: the three break conditions
Breaks(p) ==
    \/ ~p.truthy
    \/ (p.kind = "dict" /\ "code" \in p.keys)
    \/ (p.kind # "list" \/ p.rows = <<>>)

\* the boundary row (timestamp = earliest_ms) dropped
valid_rows_Strict(rows, earliest) ==
    SelectSeq(rows, LAMBDA row : extract_timestamp(row) > earliest)

\* the per-page filter left out
valid_rows_Unfiltered(rows, earliest) == rows

\* line 173
valid_rows(rows, earliest) ==
    SelectSeq(rows, LAMBDA row : extract_timestamp(row) >= earliest)

\* line 176
first_ts(rows) == extract_timestamp(rows[1])

\* the test of the first timestamp left out
Continues_IgnoreFirst(rows, lim, earliest) == Len(rows) = lim

\* the full-page test left out
Continues_IgnoreLen(rows, lim, earliest) == first_ts(rows) > earliest

\* line 177
Continues(rows, lim, earliest) ==
    Len(rows) = lim /\ first_ts(rows) > earliest

\* the cursor set to the first timestamp itself
NextEndTime_NoDecrement(rows) == first_ts(rows)

\* line 178
NextEndTime(rows) == first_ts(rows) - 1

RECURSIVE SortedSeq(_)
SortedSeq(S) ==
    IF S = {} THEN <<>>
    ELSE LET m == CHOOSE x \in S : \A y \in S : x <= y
         IN <<m>> \o SortedSeq(S \ {m})

\* line 183-185: last write wins per timestamp
unique_map(rows) ==
    [k \in {extract_timestamp(rows[i]) : i \in DOMAIN rows} |->
        rows[CHOOSE i \in DOMAIN rows :
                /\ extract_timestamp(rows[i]) = k
                /\ \A j \in DOMAIN rows : extract_timestamp(rows[j]) = k => j <= i]]

\* the accumulated rows returned as fetched
Ordered_AsFetched(rows) == rows

\* line 186
Ordered(rows) ==
    LET m == unique_map(rows)
        keys == SortedSeq(DOMAIN m)
    IN [i \in 1..Len(keys) |-> m[keys[i]]]

\* a break throws away what was gathered
Accumulate_DiscardOnBreak(acc, p, earliest) ==
    IF Breaks(p) THEN <<>> ELSE acc \o valid_rows(p.rows, earliest)

\* line 165-174: what all_rows holds after the page
Accumulate(acc, p, earliest) ==
    IF Breaks(p) THEN acc ELSE acc \o valid_rows(p.rows, earliest)

\* line 165-180: whether the loop goes round again after the page
Again(p, lim, earliest) == ~Breaks(p) /\ Continues(p.rows, lim, earliest)

\* one pass of the loop body once _get has returned p (line 165-187)
Process(p) ==
    /\ pc = "fetching"
    /\ responses' = Append(responses, p)
    /\ all_rows' = Accumulate(all_rows, p, earliest_ms)
    /\ IF Again(p, limit, earliest_ms)
       THEN /\ end_time' = Some(NextEndTime(p.rows))
            /\ params' = BuildParams(limit, end_time', build, earliest_ms)
            /\ requests' = Append(requests, EndTimeOf(params'))
            /\ pc' = "fetching"
            /\ UNCHANGED ordered
       ELSE /\ pc' = "returned"
            /\ ordered' = Ordered(all_rows')
            /\ UNCHANGED <<end_time, params, requests>>
    /\ UNCHANGED <<symbol_param, limit, earliest_ms, build, upstream, gvars, dvars, rvars>>

\* _get returns some JSON value
GetReturns ==
    /\ Len(requests) <= MaxPages
    /\ \E p \in Payloads : Process(p)

\* _get raises: the exception leaves paginate_fetch (no handler, line 164)
GetRaises ==
    /\ pc = "fetching"
    /\ Len(requests) <= MaxPages
    /\ pc' = "raised"
    /\ UNCHANGED <<symbol_param, limit, earliest_ms, end_time, all_rows, params,
                   responses, requests, ordered, build, upstream, gvars, dvars, rvars>>

\* line 141-149: the keyword-only parameters of paginate_fetch
Keywords ==
    {"path", "symbol", "limit", "earliest_ms", "build_params", "extract_timestamp"}

\* what callers may pass as symbol_param (tests/test_collector.py line 29, 56)
SymbolParams == {None, Some("pair")}

\* the keywords of a call: the six of the adapters (line 192-199), and
\* symbol_param when the caller passes it
KeywordsPassed(sp) == Keywords \cup (IF sp = None THEN {} ELSE {"symbol_param"})

\* Python binds a call only when every keyword names a parameter; otherwise
\* the call raises TypeError before the body runs
Binds(sp) == KeywordsPassed(sp) \subseteq Keywords

\* the state once the call is bound and the first request is out (line
\* 156-164), or once the call has raised TypeError
PaginateInit(ups) ==
    /\ symbol_param \in SymbolParams
    /\ limit \in Limits
    /\ earliest_ms \in Timestamps
    /\ end_time = None
    /\ all_rows = <<>>
    /\ build \in Builders
    /\ responses = <<>>
    /\ ordered = <<>>
    /\ IF Binds(symbol_param)
       THEN /\ params = BuildParams(limit, None, build, earliest_ms)
            /\ requests = <<None>>
            /\ pc = "fetching"
       ELSE /\ params = <<>>
            /\ requests = <<>>
            /\ pc = "raised"
    /\ upstream \in ups
    /\ GetOff
    /\ DriverOff
    /\ RerunOff

----------------------------------------------------------------------------
(* A well-behaved upstream: a finite set of rows with distinct timestamps  *)
(* that answers every request with the `limit` most recent rows whose      *)
(* timestamp is <= endTime, oldest first.                                  *)

Upstreams ==
    {S \in SUBSET Rows :
        \A r1, r2 \in S : extract_timestamp(r1) = extract_timestamp(r2) => r1 = r2}

\* the rows of S (distinct timestamps) oldest first
RowsAscending(S) ==
    LET keys == SortedSeq({extract_timestamp(r) : r \in S})
    IN [i \in 1..Len(keys) |-> CHOOSE r \in S : extract_timestamp(r) = keys[i]]

UpstreamPage(S, ps) ==
    LET eligible == {r \in S : "endTime" \in DOMAIN ps => extract_timestamp(r) <= ps.endTime}
        asc == RowsAscending(eligible)
        n == Len(asc)
    IN IF n <= ps.limit THEN asc ELSE SubSeq(asc, n - ps.limit + 1, n)

UpstreamReturns ==
    Process(ListPayload(UpstreamPage(upstream, params)))

InitUpstream == PaginateInit(Upstreams)

NextUpstream == UpstreamReturns

SpecUpstream == InitUpstream /\ [][NextUpstream]_vars

----------------------------------------------------------------------------
Init == PaginateInit({{}})

Next == GetReturns \/ GetRaises

Spec == Init /\ [][Next]_vars

----------------------------------------------------------------------------
(* The adapters, as functions of what _get hands back call after call *)

\* paginate_fetch run against a script: the outcome of each _get call in
\* turn, a value returned or an error raised. "starved" when the script
\* ends before the loop does.
RECURSIVE paginate_fetch(_, _, _, _, _)
paginate_fetch(script, i, acc, lim, earliest) ==
    IF i > Len(script)
    THEN [kind |-> "starved", rows |-> <<>>, error |-> "none", used |-> i - 1,
          all_rows |-> acc]
    ELSE IF script[i].kind = "error"
    THEN [kind |-> "error", rows |-> <<>>, error |-> script[i].error, used |-> i,
          all_rows |-> acc]
    ELSE LET rows == Accumulate(acc, script[i].value, earliest) IN
         IF Again(script[i].value, lim, earliest)
         THEN paginate_fetch(script, i + 1, rows, lim, earliest)
         ELSE [kind |-> "value", rows |-> Ordered(rows), error |-> "none", used |-> i,
               all_rows |-> rows]

\* DataFrame.sort_values: a stable sort by timestamp
RECURSIVE sort_values(_)
sort_values(rows) ==
    IF rows = <<>> THEN <<>>
    ELSE LET i == CHOOSE k \in DOMAIN rows :
                    \A j \in DOMAIN rows :
                        \/ extract_timestamp(rows[k]) < extract_timestamp(rows[j])
                        \/ (extract_timestamp(rows[k]) = extract_timestamp(rows[j]) /\ k <= j)
         IN <<rows[i]>> \o sort_values(SubSeq(rows, 1, i - 1) \o SubSeq(rows, i + 1, Len(rows)))

\* line 195, 224, 261, 281
LimitOf(loader) ==
    IF loader \in {"fetch_klines", "fetch_index_like"}
    THEN MAX_KLINE_LIMIT ELSE MAX_STAT_LIMIT

\* line 214-216, 240-242: the frame re-filtered; line 266-269, 286-289: the
\* frame sorted when not empty
Frame(loader, rows, earliest) ==
    IF loader \in {"fetch_klines", "fetch_index_like"}
    THEN SelectSeq(rows, LAMBDA row : extract_timestamp(row) >= earliest)
    ELSE IF rows = <<>> THEN rows ELSE sort_values(rows)

\* whether one of the first n _get calls of the script raised
GetRaised(script, n) ==
    \E i \in 1..n : i <= Len(script) /\ script[i].kind = "error"

\* the error of _get swallowed: the loader makes a frame of the rows
\* gathered before it
Loader_ReturnsGathered(loader, script, earliest) ==
    LET got == paginate_fetch(script, 1, <<>>, LimitOf(loader), earliest) IN
    IF got.kind # "starved"
    THEN [kind |-> "value", frame |-> Frame(loader, Ordered(got.all_rows), earliest),
          error |-> "none", used |-> got.used, all_rows |-> got.all_rows,
          get_raised |-> GetRaised(script, got.used)]
    ELSE [kind |-> got.kind, frame |-> <<>>, error |-> got.error, used |-> got.used,
          all_rows |-> got.all_rows, get_raised |-> GetRaised(script, got.used)]

\* fetch_klines, fetch_index_like, fetch_stat_series, fetch_funding: the
\* frame, or the error that left paginate_fetch; with it, what the call
\* went through: the _get calls made, whether one raised, and the rows
\* paginate_fetch held in all_rows when it ended
Loader(loader, script, earliest) ==
    LET got == paginate_fetch(script, 1, <<>>, LimitOf(loader), earliest) IN
    IF got.kind = "value"
    THEN [kind |-> "value", frame |-> Frame(loader, got.rows, earliest),
          error |-> "none", used |-> got.used, all_rows |-> got.all_rows,
          get_raised |-> GetRaised(script, got.used)]
    ELSE [kind |-> got.kind, frame |-> <<>>, error |-> got.error, used |-> got.used,
          all_rows |-> got.all_rows, get_raised |-> GetRaised(script, got.used)]

----------------------------------------------------------------------------
(* collect_symbol and main: one step per dataset task *)

\* line 27
SYMBOLS == <<"ARBUSDT", "BTCUSDT", "ETHUSDT">>

\* line 30
OUT_DIR == "data"

\* line 295-367
tasks == <<
    [file |-> "_klines_15m_30d.csv", loader |-> "fetch_klines"],
    [file |-> "_oi_1h_30d.csv", loader |-> "fetch_stat_series"],
    [file |-> "_funding_30d.csv", loader |-> "fetch_funding"],
    [file |-> "_global_ls_30d.csv", loader |-> "fetch_stat_series"],
    [file |-> "_top_ls_accounts_30d.csv", loader |-> "fetch_stat_series"],
    [file |-> "_top_ls_positions_30d.csv", loader |-> "fetch_stat_series"],
    [file |-> "_taker_vol_30d.csv", loader |-> "fetch_stat_series"],
    [file |-> "_index_15m_30d.csv", loader |-> "fetch_index_like"],
    [file |-> "_mark_15m_30d.csv", loader |-> "fetch_index_like"],
    [file |-> "_premium_15m_30d.csv", loader |-> "fetch_index_like"] >>

\* line 370: out_dir / filename
PathOf(s, t) == <<OUT_DIR, SYMBOLS[s], tasks[t].file>>

\* what one _get call may end in, as the driver's tasks see it
ScriptOutcomes ==
    {Raised("RuntimeError"), Raised("HTTPError"),
     Returned(NullPayload), Returned(DictPayload({"code", "msg"}))}
      \cup {Returned(ListPayload(p)) :
                p \in UNION {[1..n -> Timestamps \X {"a"}] : n \in PageLens}}

\* the scripts one task may meet: one or two _get calls
AllScripts == UNION {[1..n -> ScriptOutcomes] : n \in {1, 2}}

LoaderNames == {tasks[t].loader : t \in DOMAIN tasks}

\* what a loader may end in when now - DAYS is `earliest`: its outcome
\* over every script it uses up
LoaderOutcomes ==
    [l \in LoaderNames, e \in Timestamps |->
        {Loader(l, sc, e) : sc \in {x \in AllScripts :
            LET got == Loader(l, x, e) IN
            got.kind # "starved" /\ got.used = Len(x)}}]

\* main returns 0 whatever the counters say
Advance_ExitZero ==
    IF task_idx < Len(tasks)
    THEN /\ task_idx' = task_idx + 1
         /\ UNCHANGED <<symbol_idx, dpc, exit_code>>
    ELSE IF symbol_idx < Len(SYMBOLS)
    THEN /\ symbol_idx' = symbol_idx + 1
         /\ task_idx' = 1
         /\ UNCHANGED <<dpc, exit_code>>
    ELSE /\ dpc' = "done"
         /\ exit_code' = Some(0)
         /\ UNCHANGED <<symbol_idx, task_idx>>

\* line 369 and 406: the next task, the next symbol, or the end of main
\* (line 409-414)
Advance ==
    IF task_idx < Len(tasks)
    THEN /\ task_idx' = task_idx + 1
         /\ UNCHANGED <<symbol_idx, dpc, exit_code>>
    ELSE IF symbol_idx < Len(SYMBOLS)
    THEN /\ symbol_idx' = symbol_idx + 1
         /\ task_idx' = 1
         /\ UNCHANGED <<dpc, exit_code>>
    ELSE /\ dpc' = "done"
         /\ exit_code' = Some(IF stats'.success > 0 THEN 0 ELSE 1)
         /\ UNCHANGED <<symbol_idx, task_idx>>

\* the record of a task that ran: where its file goes, how it ended, the
\* frame written, and what its loader went through
Ran(path, outcome, frame, got) ==
    [path |-> path, outcome |-> outcome, frame |-> frame, calls |-> got.used,
     get_raised |-> got.get_raised, all_rows |-> got.all_rows]

\* line 373-376
OnError(path, got) ==
    /\ stats' = [stats EXCEPT !.skipped = @ + 1]
    /\ last' = Ran(path, "raised", <<>>, got)
    /\ UNCHANGED nfiles

\* no try/except around the loader: the error leaves collect_symbol and
\* main
TaskRaises_Uncaught ==
    /\ dpc = "running"
    /\ \E earliest \in Timestamps :
       \E got \in LoaderOutcomes[tasks[task_idx].loader, earliest] :
        /\ got.kind = "error"
        /\ last' = Ran(PathOf(symbol_idx, task_idx), "raised", <<>>, got)
    /\ dpc' = "done"
    /\ exit_code' = Some(1)
    /\ UNCHANGED <<symbol_idx, task_idx, stats, nfiles, pvars, gvars, rvars>>

\* line 371-376: the loader raises
TaskRaises ==
    /\ dpc = "running"
    /\ \E earliest \in Timestamps :
       \E got \in LoaderOutcomes[tasks[task_idx].loader, earliest] :
        /\ got.kind = "error"
        /\ OnError(PathOf(symbol_idx, task_idx), got)
    /\ Advance
    /\ UNCHANGED <<pvars, gvars, rvars>>

\* no test of frame.empty: the empty frame is written like any other
TaskEmpty_Written ==
    /\ dpc = "running"
    /\ \E earliest \in Timestamps :
       \E got \in LoaderOutcomes[tasks[task_idx].loader, earliest] :
        /\ got.kind = "value"
        /\ got.frame = <<>>
        /\ stats' = [stats EXCEPT !.success = @ + 1]
        /\ last' = Ran(PathOf(symbol_idx, task_idx), "empty", <<>>, got)
        /\ nfiles' = nfiles + 1
    /\ Advance
    /\ UNCHANGED <<pvars, gvars, rvars>>

\* line 378-381: the loader returns an empty frame
TaskEmpty ==
    /\ dpc = "running"
    /\ \E earliest \in Timestamps :
       \E got \in LoaderOutcomes[tasks[task_idx].loader, earliest] :
        /\ got.kind = "value"
        /\ got.frame = <<>>
        /\ stats' = [stats EXCEPT !.skipped = @ + 1]
        /\ last' = Ran(PathOf(symbol_idx, task_idx), "empty", <<>>, got)
        /\ UNCHANGED nfiles
    /\ Advance
    /\ UNCHANGED <<pvars, gvars, rvars>>

\* line 383-384: the frame is written
TaskWritten ==
    /\ dpc = "running"
    /\ \E earliest \in Timestamps :
       \E got \in LoaderOutcomes[tasks[task_idx].loader, earliest] :
        /\ got.kind = "value"
        /\ got.frame # <<>>
        /\ stats' = [stats EXCEPT !.success = @ + 1]
        /\ last' = Ran(PathOf(symbol_idx, task_idx), "written", got.frame, got)
        /\ nfiles' = nfiles + 1
    /\ Advance
    /\ UNCHANGED <<pvars, gvars, rvars>>

\* line 395-406: main starts on the first task of the first symbol
InitDriver ==
    /\ symbol_idx = 1
    /\ task_idx = 1
    /\ stats = [success |-> 0, skipped |-> 0]
    /\ nfiles = 0
    /\ last = NoTask
    /\ dpc = "running"
    /\ exit_code = None
    /\ PaginateOff
    /\ GetOff
    /\ RerunOff

NextDriver == TaskRaises \/ TaskEmpty \/ TaskWritten

SpecDriver == InitDriver /\ [][NextDriver]_vars

----------------------------------------------------------------------------
(* One dataset collected by two runs of main, one after the other, against *)
(* a well-behaved upstream whose rows do not change in between             *)

\* the clock of a run, in the unit of the timestamps
RunTimes == DAYS..(DAYS + MaxTs)

\* line 191, 220, 254, 273: to_ms(now_kst() - Timedelta(days=days))
EarliestAt(now) == now - DAYS

\* line 197, 226, 255-256, 275-276: the build_params of each loader
BuilderOf(loader) ==
    CASE loader \in {"fetch_klines", "fetch_index_like"} -> "interval"
      [] loader = "fetch_stat_series" -> "period"
      [] loader = "fetch_funding" -> "startTime"

\* paginate_fetch served by the upstream S: the loop of line 159-180 from
\* the cursor et on, then line 183-187
RECURSIVE paginate_upstream(_, _, _, _, _, _)
paginate_upstream(S, et, acc, lim, b, earliest) ==
    LET page == ListPayload(UpstreamPage(S, BuildParams(lim, et, b, earliest)))
        rows == Accumulate(acc, page, earliest)
    IN IF Again(page, lim, earliest)
       THEN paginate_upstream(S, Some(NextEndTime(page.rows)), rows, lim, b, earliest)
       ELSE Ordered(rows)

\* the frame a loader makes at time now of what the upstream S holds
FrameAt(loader, S, now) ==
    Frame(loader,
          paginate_upstream(S, None, <<>>, LimitOf(loader), BuilderOf(loader),
                            EarliestAt(now)),
          EarliestAt(now))

\* line 130-138: the header line with the time of collection, then the
\* frame's rows
write_with_metadata(frame, now) == Some([collected_at |-> now, rows |-> frame])

\* one run of main reaches the dataset's task at time now (line 369-384):
\* an empty frame is skipped, any other is written over the file
RunOnce ==
    /\ run_loader # "none"
    /\ Len(runs) < 2
    /\ \E now \in RunTimes :
        /\ runs # <<>> => now >= runs[Len(runs)].now
        /\ LET frame == FrameAt(run_loader, run_upstream, now) IN
           /\ runs' = Append(runs, [now |-> now, earliest_ms |-> EarliestAt(now),
                                    rows |-> frame])
           /\ disk' = IF frame = <<>> THEN disk ELSE write_with_metadata(frame, now)
    /\ UNCHANGED <<run_loader, run_upstream, pvars, gvars, dvars>>

InitRerun ==
    /\ run_loader \in LoaderNames
    /\ run_upstream \in Upstreams
    /\ runs = <<>>
    /\ disk = None
    /\ PaginateOff
    /\ GetOff
    /\ DriverOff

NextRerun == RunOnce

SpecRerun == InitRerun /\ [][NextRerun]_vars

----------------------------------------------------------------------------
(* Properties of two runs *)

\* C14 as claimed: two runs against the same upstream rows, at any two
\* times, make the same data rows of the dataset.
C14_SameRows ==
    Len(runs) = 2 => runs[1].rows = runs[2].rows

\* the upstream holds a row that the first run's window takes in and the
\* second run's window leaves out
RowBetweenWindows ==
    \E r \in run_upstream :
        /\ runs[1].earliest_ms <= extract_timestamp(r)
        /\ extract_timestamp(r) < runs[2].earliest_ms

\* C14 as amended: the second run makes the rows of the first run that are
\* at or above its own earliest_ms; the two runs make the same data rows
\* when the upstream holds no row between their two earliest_ms, and the
\* file then differs from the first run's in its header at most.
C14_SameRowsSameWindow ==
    Len(runs) = 2 =>
        /\ runs[2].rows =
              SelectSeq(runs[1].rows,
                        LAMBDA row : extract_timestamp(row) >= runs[2].earliest_ms)
        /\ ~RowBetweenWindows =>
              /\ runs[1].rows = runs[2].rows
              /\ runs[2].rows # <<>> =>
                    disk = Some([collected_at |-> runs[2].now, rows |-> runs[1].rows])

\* two runs at different times wrote the same rows under different headers
C14_Witness ==
    /\ Len(runs) = 2
    /\ runs[1].now < runs[2].now
    /\ ~RowBetweenWindows
    /\ runs[1].rows = runs[2].rows
    /\ Len(runs[2].rows) = 2
    /\ disk # None
    /\ disk[1].collected_at = runs[2].now

----------------------------------------------------------------------------
(* Properties of collect_symbol *)

\* tasks run so far
TasksRun ==
    IF dpc = "done" THEN Len(SYMBOLS) * Len(tasks)
    ELSE (symbol_idx - 1) * Len(tasks) + (task_idx - 1)

\* C10: when a task's loader raises, the driver counts one more skipped,
\* leaves success alone, writes no file and goes on to the next task (of
\* this symbol or the next one); main ends only after every task has run.
C10_ErrorSkipsOneTask ==
    [][(last' # last /\ last'.outcome = "raised") =>
          /\ stats'.skipped = stats.skipped + 1
          /\ stats'.success = stats.success
          /\ nfiles' = nfiles
          /\ last'.path = PathOf(symbol_idx, task_idx)
          /\ TasksRun' = TasksRun + 1
          /\ (dpc' = "done") = (symbol_idx = Len(SYMBOLS) /\ task_idx = Len(tasks))
          /\ dpc' = "running" =>
                <<symbol_idx', task_idx'>> =
                    IF task_idx < Len(tasks) THEN <<symbol_idx, task_idx + 1>>
                    ELSE <<symbol_idx + 1, 1>>]_vars

\* the loader of the last task of the first symbol raised, after a file
\* had been written, and main went on to the second symbol
C10_Witness ==
    /\ last.outcome = "raised"
    /\ last.path = PathOf(1, Len(tasks))
    /\ symbol_idx = 2
    /\ task_idx = 1
    /\ dpc = "running"
    /\ stats.success >= 1

\* C11: when a task's loader returns an empty table, the driver counts one
\* more skipped, writes no file and leaves success alone.
C11_EmptySkipsOneTask ==
    [][(last' # last /\ last'.outcome = "empty") =>
          /\ stats'.skipped = stats.skipped + 1
          /\ stats'.success = stats.success
          /\ nfiles' = nfiles
          /\ last'.frame = <<>>
          /\ last'.path = PathOf(symbol_idx, task_idx)]_vars

\* an empty table came back after a file had been written
C11_Witness ==
    /\ last.outcome = "empty"
    /\ stats.skipped >= 1
    /\ stats.success >= 1
    /\ nfiles >= 1

\* the paths of the tasks of a run are pairwise different
DistinctPaths ==
    \A s1, s2 \in DOMAIN SYMBOLS : \A t1, t2 \in DOMAIN tasks :
        PathOf(s1, t1) = PathOf(s2, t2) => (s1 = s2 /\ t1 = t2)

\* C12: success counts the files written, and main returns 0 exactly when
\* at least one file was written, 1 otherwise, after every task has run.
C12_ExitCode ==
    /\ DistinctPaths
    /\ stats.success = nfiles
    /\ stats.success + stats.skipped = TasksRun
    /\ dpc = "running" => exit_code = None
    /\ dpc = "done" =>
          /\ exit_code \in {Some(0), Some(1)}
          /\ (exit_code = Some(0)) = (nfiles >= 1)

\* main returned 0 with a single file written
C12_Witness ==
    /\ dpc = "done"
    /\ exit_code = Some(0)
    /\ nfiles = 1
    /\ stats.skipped = Len(SYMBOLS) * Len(tasks) - 1

\* C20: when a _get call of a task raises, on the first page or after
\* pages that were gathered, the task hands no rows on: nothing is written,
\* the task is counted skipped, not success, and the run goes on to the
\* next task.
C20_RaiseAbortsDataset ==
    [][(last' # last /\ last'.get_raised) =>
          /\ last'.outcome = "raised"
          /\ last'.frame = <<>>
          /\ nfiles' = nfiles
          /\ stats'.skipped = stats.skipped + 1
          /\ stats'.success = stats.success
          /\ TasksRun' = TasksRun + 1
          /\ ~(symbol_idx = Len(SYMBOLS) /\ task_idx = Len(tasks)) =>
                /\ dpc' = "running"
                /\ <<symbol_idx', task_idx'>> # <<symbol_idx, task_idx>>]_vars

\* the second _get call of a task raised after a page whose rows had been
\* gathered, and the run went on
C20_Witness ==
    /\ last.get_raised
    /\ last.calls = 2
    /\ last.all_rows # <<>>
    /\ last.outcome = "raised"
    /\ last.frame = <<>>
    /\ dpc = "running"

----------------------------------------------------------------------------
(* Properties of paginate_fetch *)

StrictlyAscending(rows) ==
    \A i \in 1..(Len(rows) - 1) :
        extract_timestamp(rows[i]) < extract_timestamp(rows[i + 1])

MinTs(rows) ==
    CHOOSE t \in {extract_timestamp(rows[i]) : i \in DOMAIN rows} :
        \A j \in DOMAIN rows : t <= extract_timestamp(rows[j])

\* a non-empty list with exactly `limit` rows
FullPage(p) == p.kind = "list" /\ p.rows # <<>> /\ Len(p.rows) = limit

\* a non-empty list with fewer than `limit` rows
PartialPage(p) == p.kind = "list" /\ p.rows # <<>> /\ Len(p.rows) < limit

\* C13: a paginate_fetch call that passes symbol_param = K issues its
\* request, and every request it issues carries the symbol under the key K
\* and has no parameter named "symbol".
C13_CustomSymbolParam ==
    symbol_param # None =>
        /\ requests # <<>>
        /\ symbol_param[1] \in DOMAIN params
        /\ params[symbol_param[1]] = SYMBOL
        /\ "symbol" \notin DOMAIN params

\* C1: the list paginate_fetch returns is strictly ascending by extracted
\* timestamp (no two rows share a timestamp), whatever the upstream sent.
C1_StrictlyAscending ==
    pc = "returned" => StrictlyAscending(ordered)

\* rows with a repeated timestamp were gathered and merged
C1_Witness ==
    /\ pc = "returned"
    /\ Len(ordered) >= 2
    /\ Len(all_rows) > Len(ordered)
    /\ ~StrictlyAscending(all_rows)

\* C2: every returned row has extracted timestamp >= earliest_ms.
C2_AboveEarliest ==
    pc = "returned" =>
        \A i \in DOMAIN ordered : extract_timestamp(ordered[i]) >= earliest_ms

\* a page carried a row older than earliest_ms and rows were returned
C2_Witness ==
    /\ pc = "returned"
    /\ ordered # <<>>
    /\ \E i \in DOMAIN responses : \E j \in DOMAIN responses[i].rows :
            extract_timestamp(responses[i].rows[j]) < earliest_ms

\* C3: against a well-behaved upstream paginate_fetch returns exactly the
\* upstream rows with timestamp >= earliest_ms, oldest first, none missing.
C3_Complete ==
    pc = "returned" =>
        ordered = RowsAscending({r \in upstream : extract_timestamp(r) >= earliest_ms})

\* the scenario of the specification: two pages, three rows, limit 2
C3_Witness ==
    /\ pc = "returned"
    /\ limit = 2
    /\ earliest_ms = 0
    /\ Len(responses) = 2
    /\ Len(responses[1].rows) = 2
    /\ Len(responses[2].rows) = 1
    /\ Len(ordered) = 3

\* C4 as claimed: after a full page whose minimum timestamp t is above
\* earliest_ms, in any row order, the follow-up request carries
\* endTime = t - 1.
C4_MinTimestampCursor ==
    \A i \in DOMAIN responses :
        (FullPage(responses[i]) /\ MinTs(responses[i].rows) > earliest_ms) =>
            /\ Len(requests) > i
            /\ requests[i + 1] = Some(MinTs(responses[i].rows) - 1)

\* C4 as amended: after a full page whose first row's timestamp t is above
\* earliest_ms, a follow-up request is issued with endTime = t - 1; t is
\* the page's minimum timestamp when the page is in ascending order.
C4_FirstRowCursor ==
    \A i \in DOMAIN responses :
        /\ (FullPage(responses[i]) /\ first_ts(responses[i].rows) > earliest_ms) =>
              /\ Len(requests) > i
              /\ requests[i + 1] = Some(first_ts(responses[i].rows) - 1)
        /\ (/\ FullPage(responses[i])
            /\ StrictlyAscending(responses[i].rows)
            /\ MinTs(responses[i].rows) > earliest_ms) =>
              /\ Len(requests) > i
              /\ requests[i + 1] = Some(MinTs(responses[i].rows) - 1)

\* a full page in descending order was followed by a request
C4_Witness ==
    \E i \in DOMAIN responses :
        /\ FullPage(responses[i])
        /\ first_ts(responses[i].rows) > earliest_ms
        /\ first_ts(responses[i].rows) # MinTs(responses[i].rows)
        /\ Len(requests) > i

\* C5: a partial page (non-empty, fewer than `limit` rows) is the last
\* one: no further request is issued and paginate_fetch returns.
C5_PartialPageStops ==
    \A i \in DOMAIN responses :
        PartialPage(responses[i]) =>
            /\ i = Len(responses)
            /\ Len(requests) = i
            /\ pc = "returned"

\* a partial second page lying wholly above earliest_ms ended the call
C5_Witness ==
    /\ pc = "returned"
    /\ Len(responses) = 2
    /\ PartialPage(responses[2])
    /\ MinTs(responses[2].rows) > earliest_ms

\* every row of every page answered to a request with an endTime is at or
\* below that endTime
PagesRespectEndTime ==
    \A i \in DOMAIN responses :
        requests[i] # None =>
            \A j \in DOMAIN responses[i].rows :
                extract_timestamp(responses[i].rows[j]) <= requests[i][1]

\* C17: when every page holds only rows at or below the endTime asked for,
\* the endTime of each follow-up request is strictly below that of the
\* request before it and never below earliest_ms, so the follow-up requests
\* are at most as many as the timestamps from earliest_ms to the first
\* cursor: the loop ends.
C17_CursorDecreases ==
    PagesRespectEndTime =>
        /\ \A i \in 2..Len(requests) :
              /\ requests[i] # None
              /\ requests[i][1] >= earliest_ms
              /\ i > 2 => requests[i][1] < requests[i - 1][1]
        /\ Len(requests) >= 2 =>
              Len(requests) - 1 <= requests[2][1] - earliest_ms + 1

\* two follow-up requests, the second with a lower endTime, down to
\* earliest_ms
C17_Witness ==
    /\ PagesRespectEndTime
    /\ Len(requests) = 3
    /\ Len(responses) = 2
    /\ requests[3][1] < requests[2][1]
    /\ requests[3][1] = earliest_ms

\* every row of the page is below earliest_ms: the filter keeps none
FilteredEmpty(p) ==
    \A j \in DOMAIN p.rows : extract_timestamp(p.rows[j]) < earliest_ms

\* C18 as claimed: a full page of which the filter keeps no row is followed
\* by a further request.
C18_FilteredEmptyContinues ==
    \A i \in DOMAIN responses :
        (FullPage(responses[i]) /\ FilteredEmpty(responses[i])) =>
            Len(requests) > i

\* C18 as amended: a full page of which the filter keeps no row is the last
\* one: its first row is below earliest_ms, no further request is issued
\* and paginate_fetch returns.
C18_FilteredEmptyStops ==
    \A i \in DOMAIN responses :
        (FullPage(responses[i]) /\ FilteredEmpty(responses[i])) =>
            /\ first_ts(responses[i].rows) < earliest_ms
            /\ i = Len(responses)
            /\ Len(requests) = i
            /\ pc = "returned"

\* a full second page lying wholly below earliest_ms ended the call
C18_Witness ==
    /\ pc = "returned"
    /\ Len(responses) = 2
    /\ FullPage(responses[2])
    /\ FilteredEmpty(responses[2])
    /\ ordered # <<>>

\* a null, an empty list, an object (with "code" or without), a scalar:
\* anything but a non-empty list
NotNonEmptyList(p) == p.kind # "list" \/ p.rows = <<>>

\* the rows at or above earliest_ms of pages 1..k, in the order received
RECURSIVE GatheredUpTo(_)
GatheredUpTo(k) ==
    IF k = 0 THEN <<>>
    ELSE GatheredUpTo(k - 1)
           \o SelectSeq(responses[k].rows,
                        LAMBDA row : extract_timestamp(row) >= earliest_ms)

\* rows is seq without duplicate timestamps (the last row of a timestamp
\* kept), in ascending order
IsDedupedAscending(rows, seq) ==
    /\ StrictlyAscending(rows)
    /\ \A i \in DOMAIN seq :
          \E j \in DOMAIN rows :
              extract_timestamp(rows[j]) = extract_timestamp(seq[i])
    /\ \A j \in DOMAIN rows :
          \E i \in DOMAIN seq :
              /\ seq[i] = rows[j]
              /\ \A i2 \in DOMAIN seq :
                    i2 > i => extract_timestamp(seq[i2]) # extract_timestamp(rows[j])

\* C19: when the k-th response is null, an empty list, an error object or
\* anything but a non-empty list, paginate_fetch does not raise, issues no
\* further request and returns the rows at or above earliest_ms of pages
\* 1..k-1, without duplicate timestamps and ascending.
C19_BreakReturnsGathered ==
    \A k \in DOMAIN responses :
        NotNonEmptyList(responses[k]) =>
            /\ k = Len(responses)
            /\ Len(requests) = k
            /\ pc = "returned"
            /\ IsDedupedAscending(ordered, GatheredUpTo(k - 1))

\* an error object as second response, after a page of which rows were kept
C19_Witness ==
    /\ pc = "returned"
    /\ Len(responses) = 2
    /\ responses[2].kind = "dict"
    /\ "code" \in responses[2].keys
    /\ Len(ordered) = 2

====
